---- MODULE Spec2Model ----
(***************************************************************************)
(* LawRef (app.py): the concurrent fetch / extract / summarize pipeline.   *)
(* Strings are sequences of one-character strings, so that strip, join,    *)
(* slicing, substring tests and split are computed as Python computes      *)
(* them.                                                                   *)
(***************************************************************************)
EXTENDS Integers, Sequences, FiniteSets, TLC

(***************************************************************************)
(* Bounds of the model.                                                    *)
(***************************************************************************)
\* number of result-title anchors on a search page
MaxAnchors == 2

\* number of fetch_url calls scheduled at once in the stress harness
NumCallers == 102

\* number of pieces a decoded output is made of
MaxPieces == 4

\* number of summarize_text calls submitted in the executor stress harness
NumJobs == 12

\* largest number of result anchors on a page of the wide-search runs
MaxWideAnchors == 12

\* how far below and above MAX_CASE_TEXT_LENGTH the long case texts reach
MaxOver == 2

(***************************************************************************)
(* Program constants.                                                      *)
(***************************************************************************)
MAX_CASE_TEXT_LENGTH == 9500

MAX_CONCURRENT_REQUESTS == 100

\* ThreadPoolExecutor(max_workers=10)
max_workers == 10

\* soup.select(".result_title a")[:10]
MaxSearchResults == 10

\* response.status_code != 200
HTTP_OK == 200

(***************************************************************************)
(* String literals of the program.                                         *)
(***************************************************************************)
BASE_URL ==
    <<"h","t","t","p","s",":","/","/","i","n","d","i","a","n","k","a","n",
      "o","o","n",".","o","r","g">>

SEARCH_URL ==
    <<"h","t","t","p","s",":","/","/","i","n","d","i","a","n","k","a","n",
      "o","o","n",".","o","r","g","/","s","e","a","r","c","h","/","?","f",
      "o","r","m","I","n","p","u","t","=">>

UNKNOWN_TITLE ==
    <<"U","n","k","n","o","w","n">>

FETCH_FAILED_TEXT ==
    <<"F","a","i","l","e","d"," ","t","o"," ","f","e","t","c","h"," ","c",
      "a","s","e"," ","d","e","t","a","i","l","s",".">>

FAILED_MARK ==
    <<"F","a","i","l","e","d"," ","t","o"," ","f","e","t","c","h">>

NO_TEXT ==
    <<"N","o"," ","c","a","s","e"," ","t","e","x","t"," ","f","o","u","n",
      "d",".">>

UNAVAILABLE ==
    <<"S","u","m","m","a","r","y"," ","u","n","a","v","a","i","l","a","b",
      "l","e"," ","d","u","e"," ","t","o"," ","m","i","s","s","i","n","g",
      " ","c","a","s","e"," ","t","e","x","t",".">>

ERROR_PREFIX ==
    <<"E","r","r","o","r"," ","i","n"," ","s","u","m","m","a","r","i","z",
      "a","t","i","o","n",":"," ">>

THINK_END ==
    <<"<","/","t","h","i","n","k",">">>

PROMPT_HEAD ==
    <<"\n"," "," "," "," ","Y","o","u"," ","a","r","e"," ","a","n"," ","I",
      "n","d","i","a","n"," ","l","e","g","a","l"," ","A","I"," ","a","s",
      "s","i","s","t","a","n","t","."," ","S","u","m","m","a","r","i","z",
      "e"," ","t","h","e"," ","f","o","l","l","o","w","i","n","g"," ","c",
      "o","u","r","t"," ","c","a","s","e"," ","w","i","t","h"," ","h","i",
      "g","h"," ","a","c","c","u","r","a","c","y",","," ","u","s","i","n",
      "g"," ","o","n","l","y"," ","t","h","e"," ","p","r","o","v","i","d",
      "e","d"," ","t","e","x","t",".","\n"," "," "," "," ","D","o"," ","N",
      "O","T"," ","a","d","d"," ","a","s","s","u","m","p","t","i","o","n",
      "s"," ","o","r"," ","e","x","t","e","r","n","a","l"," ","k","n","o",
      "w","l","e","d","g","e"," ","o","n"," ","y","o","u","r"," ","o","w",
      "n",".","\n","\n"," "," "," "," ","I","n","c","l","u","d","e",":",
      "\n"," "," "," "," ","-"," ","C","a","s","e"," ","T","i","t","l","e",
      " ","(","i","f"," ","a","v","a","i","l","a","b","l","e",")","\n"," ",
      " "," "," ","-"," ","K","e","y"," ","D","a","t","e","s"," ","(","c",
      "a","s","e",","," ","j","u","d","g","e","m","e","n","t",","," ","a",
      "r","r","e","s","t","e","d",","," ","s","e","e","n",","," ","c","a",
      "l","l",","," ","e","v","i","d","e","n","c","e",","," ","p","e","r",
      "s","o","n",","," ","a","c","t","i","o","n"," ","t","i","m","e"," ",
      "a","n","d"," ","d","a","t","e",".",")","\n"," "," "," "," ","-"," ",
      "L","a","w","s",","," ","A","c","t","s",","," ","o","r"," ","A","r",
      "t","i","c","l","e","s"," ","c","i","t","e","d"," ","(","v","e","r",
      "b","a","t","i","m",")","\n"," "," "," "," ","-"," ","M","a","i","n",
      " ","L","e","g","a","l"," ","I","s","s","u","e"," ","(","i","n"," ",
      "b","r","i","e","f",")","\n"," "," "," "," ","-"," ","C","o","u","r",
      "t","'","s"," ","D","e","c","i","s","i","o","n"," ","&"," ","R","e",
      "a","s","o","n","i","n","g"," ","(","w","i","t","h","o","u","t"," ",
      "o","p","i","n","i","o","n",")","\n"," "," "," "," ","-"," ","P","r",
      "e","c","e","d","e","n","t"," ","o","r"," ","I","m","p","a","c","t",
      " ","(","i","f"," ","m","e","n","t","i","o","n","e","d"," ","i","n",
      " ","t","h","e"," ","c","a","s","e"," ","t","e","x","t",")","\n","\n",
      " "," "," "," ","E","n","s","u","r","e"," ","t","h","e"," ","s","u",
      "m","m","a","r","y"," ","r","e","m","a","i","n","s"," ","n","e","u",
      "t","r","a","l",","," ","c","o","n","c","i","s","e",","," ","a","n",
      "d"," ","f","a","c","t","-","b","a","s","e","d",".","\n","\n"," "," ",
      " "," ","C","a","s","e"," ","T","e","x","t",":"," ">>

PROMPT_TAIL ==
    <<".",".",".","\n"," "," "," "," ">>

(***************************************************************************)
(* Python string operations.                                               *)
(***************************************************************************)
None == <<>>

Some(x) == <<x>>

Min(a, b) == IF a <= b THEN a ELSE b

BoundedSeq(S, n) == UNION {[1..k -> S] : k \in 0..n}

IsSpace(c) == c \in {" ", "\n", "\t", "\r"}

\* the first position from i on that holds no whitespace (Len(s) + 1: none)
RECURSIVE FirstNonSpace(_, _)
FirstNonSpace(s, i) ==
    IF i > Len(s) THEN i
    ELSE IF IsSpace(s[i]) THEN FirstNonSpace(s, i + 1) ELSE i

\* the last position up to i that holds no whitespace (0: none)
RECURSIVE LastNonSpace(_, _)
LastNonSpace(s, i) ==
    IF i < 1 THEN i
    ELSE IF IsSpace(s[i]) THEN LastNonSpace(s, i - 1) ELSE i

\* str.strip()
Strip(s) == SubSeq(s, FirstNonSpace(s, 1), LastNonSpace(s, Len(s)))

\* sep.join(parts)
RECURSIVE Join(_, _)
Join(sep, parts) ==
    IF parts = <<>> THEN <<>>
    ELSE IF Len(parts) = 1 THEN parts[1]
    ELSE parts[1] \o sep \o Join(sep, Tail(parts))

\* s[:n]
Prefix(s, n) == SubSeq(s, 1, Min(n, Len(s)))

\* the positions at which needle occurs in hay
Occurrences(needle, hay) ==
    {i \in 1..(Len(hay) - Len(needle) + 1) :
        SubSeq(hay, i, i + Len(needle) - 1) = needle}

\* needle in hay
Contains(needle, hay) == Occurrences(needle, hay) # {}

\* [x for x in xs if keep(x)]
RECURSIVE SelectNonEmpty(_)
SelectNonEmpty(xs) ==
    IF xs = <<>> THEN <<>>
    ELSE IF Head(xs) = <<>> THEN SelectNonEmpty(Tail(xs))
    ELSE <<Head(xs)>> \o SelectNonEmpty(Tail(xs))

\* s.split(sep, 1)
Split1(sep, s) ==
    LET occ == Occurrences(sep, s)
    IN  IF occ = {} THEN <<s>>
        ELSE LET at == CHOOSE i \in occ : \A j \in occ : i <= j
             IN  <<SubSeq(s, 1, at - 1), SubSeq(s, at + Len(sep), Len(s))>>

(***************************************************************************)
(* Inputs: what the network and the generation engine may answer.          *)
(***************************************************************************)
Queries == {<<>>, <<"t","a","x">>}

\* a result-title anchor: its text and its href attribute (None: no href)
Anchors ==
    { [text |-> <<" ","A"," ">>, href |-> Some(<<"/","d","/","1">>)],
      [text |-> <<"B">>,         href |-> Some(<<"/","d","/","2">>)],
      [text |-> <<"C">>,         href |-> None] }

\* response.status_code: success, or any other status
Statuses == {HTTP_OK, 404}

\* the answers to the search request: a status and the result-title anchors
\* of the page
SearchPages ==
    { [status |-> status, anchors |-> anchors] :
        status \in Statuses, anchors \in BoundedSeq(Anchors, MaxAnchors) }

\* client.get raising: httpx.ReadTimeout after timeout=10, or a transport error
FetchErrors == {"ReadTimeout", "ConnectError"}

\* a case page: the <p> elements under ".expanded_headline .fragment", each
\* the sequence of its text nodes
PageBodies ==
    { <<>>,
      << <<>> >>,
      << << <<" ","o","k"," ">>, <<" ">>, <<"g","o">> >> >>,
      << << <<"F","a","i","l","e","d"," ","t","o">> >>,
         << <<"f","e","t","c","h">> >> >> }

\* what tokenizer / model.generate / tokenizer.decode do: a decoded string, or
\* an exception with a message
EngineOutcomes ==
    { [ok |-> TRUE,  out |-> <<"r","<","/","t","h","i","n","k",">"," ","s"," ">>],
      [ok |-> TRUE,  out |-> <<"s","2">>],
      [ok |-> FALSE, out |-> <<"o","o","m">>] }

(***************************************************************************)
(* State of one run of run_async_task(query).                              *)
(***************************************************************************)
VARIABLES
    mainpc,        \* fetch_and_process_cases: "init", "search_wait", "gather",
                   \* "returned", "raised"
    search_url,    \* the URL of the search request (None before it is built)
    semaphore,     \* the value of the asyncio.Semaphore
    cases,         \* the search results, [title, url]
    pc,            \* per case task: "ready", "fetching", "summarizing", "done",
                   \* "raised", "cancelled"
    case_data,     \* per case: the text of the scraped document (Some/None)
    work,          \* per case: the text submitted to the executor (Some/None)
    fut,           \* per case: the outcome of summarize_text (Some/None)
    results,       \* per case: the value process_case returned (Some/None)
    queue,         \* executor: submitted work items not yet started (case ids)
    running,       \* executor: work items a worker thread is executing
    done_order,    \* the case tasks in the order they returned
    gather_exc,    \* the first exception a case task raised ("NoExc": none)
    fetch_exc,     \* per case: the exception its fetch raised ("NoExc": none)
    ret,           \* what run_async_task gave its caller
    search_page,   \* the answer to the search request, [status, anchors]
                   \* (Some/None)
    case_status,   \* per case: the status of the answer to its page request
                   \* (Some/None)
    engine,        \* per case: what the engine did in summarize_text
                   \* (Some/None)
    case_body,     \* per case: the paragraphs of the answer to its page
                   \* request (Some/None)
    fetches,       \* per case: the page requests issued for it
    submits,       \* per case: the summarize_text calls submitted for it
    n_get,         \* the client.get calls of the run
    busy_at,       \* per case: the work items a worker was executing when
                   \* the answer to its page request was processed
    g_idle,        \* stress harness: fetch_url calls scheduled, not yet run
    g_waiting,     \* stress harness: calls suspended in semaphore.acquire()
    g_holding,     \* stress harness: calls inside the semaphore, awaiting
                   \* client.get
    g_done,        \* stress harness: calls that left fetch_url
    sm_text,       \* summarize_text alone: its argument
    sm_gen,        \* summarize_text alone: what the engine does
    sm_prompt,     \* summarize_text alone: the prompt built (Some/None)
    sm_result,     \* summarize_text alone: what the call gave (Some/None)
    p_idle,        \* executor stress harness: calls not yet submitted
    p_queued,      \* executor stress harness: calls waiting in the queue
    p_running,     \* executor stress harness: calls a worker is executing
    p_done         \* executor stress harness: calls finished

pipeline ==
    <<mainpc, search_url, cases, pc, case_data, work, fut, results,
      queue, running, done_order, gather_exc, fetch_exc, ret, search_page,
      case_status, engine, case_body, fetches, submits, n_get, busy_at>>

gate == <<g_idle, g_waiting, g_holding, g_done>>

summarizer == <<sm_text, sm_gen, sm_prompt, sm_result>>

pool == <<p_idle, p_queued, p_running, p_done>>

harness == <<gate, summarizer, pool>>

vars == <<pipeline, semaphore, gate, summarizer, pool>>

(***************************************************************************)
(* The program's functions.                                                *)
(***************************************************************************)
\* search_indiankanoon, the parse of a 200 page: KeyError when link["href"]
\* is missing
search_parse_all(anchors) ==
    LET links == anchors
    IN  IF \E k \in 1..Len(links) : links[k].href = None
        THEN [raised |-> TRUE, cases |-> <<>>]
        ELSE [raised |-> FALSE,
              cases |-> [k \in 1..Len(links) |->
                            [title |-> Strip(links[k].text),
                             url |-> BASE_URL \o links[k].href[1]]]]

\* soup.select(".result_title a")[:10] and the list built from the links
search_parse(anchors) ==
    LET links == Prefix(anchors, MaxSearchResults)
    IN  IF \E k \in 1..Len(links) : links[k].href = None
        THEN [raised |-> TRUE, cases |-> <<>>]
        ELSE [raised |-> FALSE,
              cases |-> [k \in 1..Len(links) |->
                            [title |-> Strip(links[k].text),
                             url |-> BASE_URL \o links[k].href[1]]]]

\* a search that parses the page whatever its status
search_any_status(status, anchors) == search_parse(anchors)

\* search_indiankanoon after the fetch returned
search_indiankanoon(status, anchors) ==
    IF status # HTTP_OK THEN [raised |-> FALSE, cases |-> <<>>]
    ELSE search_parse(anchors)

\* p.get_text(separator=" ", strip=True)
get_text(p) == Join(<<" ">>, SelectNonEmpty([k \in 1..Len(p) |-> Strip(p[k])]))

\* a scrape_case that does not cut the text
scrape_case_uncut(url, status, body) ==
    IF status # HTTP_OK
    THEN [title |-> UNKNOWN_TITLE, text |-> FETCH_FAILED_TEXT, url |-> url]
    ELSE LET paragraphs == [k \in 1..Len(body) |-> get_text(body[k])]
             case_text == IF paragraphs # <<>>
                          THEN Join(<<" ">>, paragraphs)
                          ELSE NO_TEXT
         IN  [title |-> UNKNOWN_TITLE, text |-> case_text, url |-> url]

\* scrape_case after the fetch returned
scrape_case(url, status, body) ==
    IF status # HTTP_OK
    THEN [title |-> UNKNOWN_TITLE, text |-> FETCH_FAILED_TEXT, url |-> url]
    ELSE LET paragraphs == [k \in 1..Len(body) |-> get_text(body[k])]
             case_text == IF paragraphs # <<>>
                          THEN Prefix(Join(<<" ">>, paragraphs), MAX_CASE_TEXT_LENGTH)
                          ELSE NO_TEXT
         IN  [title |-> UNKNOWN_TITLE, text |-> case_text, url |-> url]

\* a skip test that forgets the fetch-failure marker
skip_only_empty(text) == text = <<>>

\* a skip test that also skips the "No case text found." text
skip_no_text(text) ==
    text = <<>> \/ Contains(FAILED_MARK, text) \/ text = NO_TEXT

\* a skip test that also skips while the executor has work waiting
skip_when_busy(text) ==
    text = <<>> \/ Contains(FAILED_MARK, text) \/ queue # <<>>

\* process_case: not case_data["text"] or "Failed to fetch" in case_data["text"]
skip_summarization(text) == text = <<>> \/ Contains(FAILED_MARK, text)

\* the f-string of summarize_text
build_prompt(text) == PROMPT_HEAD \o text \o PROMPT_TAIL

\* s.rsplit(sep, 1)
RSplit1(sep, s) ==
    LET occ == Occurrences(sep, s)
    IN  IF occ = {} THEN <<s>>
        ELSE LET at == CHOOSE i \in occ : \A j \in occ : j <= i
             IN  <<SubSeq(s, 1, at - 1), SubSeq(s, at + Len(sep), Len(s))>>

\* a post-processing that cuts at the last delimiter
post_process_last(decoded) ==
    LET parts == RSplit1(THINK_END, decoded)
    IN  Strip(parts[Len(parts)])

\* summary.split("</think>", 1)[-1].strip()
post_process(decoded) ==
    LET parts == Split1(THINK_END, decoded)
    IN  Strip(parts[Len(parts)])

\* a summarize_text without the try/except
summarize_text_uncaught(text, gen) ==
    IF gen.ok THEN [raised |-> FALSE, value |-> post_process(gen.out)]
    ELSE [raised |-> TRUE, value |-> gen.out]

\* summarize_text: what the call gives its caller, a returned string or
\* (raised) an exception, for the engine's outcome gen
summarize_text(text, gen) ==
    IF gen.ok THEN [raised |-> FALSE, value |-> post_process(gen.out)]
    ELSE [raised |-> FALSE, value |-> ERROR_PREFIX \o gen.out]

\* a gate that never reports itself full
locked_never(value) == value < 0

\* asyncio.Semaphore: locked()
locked(value) == value = 0

\* async with semaphore: __aenter__ (acquire, not locked)
sem_acquire(value) == value - 1

\* a release that happens only after a response (acquire/release without
\* try/finally)
sem_exit_leak(value, how) == IF how = "response" THEN value + 1 ELSE value

\* async with semaphore: __aexit__ (release), however the body ended:
\* "response", "error" (an exception of client.get) or "cancelled"
sem_exit(value, how) == value + 1

\* __aexit__ of n fetches
RECURSIVE sem_exit_all(_, _, _)
sem_exit_all(value, n, how) ==
    IF n = 0 THEN value ELSE sem_exit_all(sem_exit(value, how), n - 1, how)

\* a collection of the results in the order the tasks finished
gather_completion_order(rs, order) ==
    [k \in 1..Len(rs) |-> rs[order[k]][1]]

\* a fetch that is tried once more after it raised
fetch_retried(attempts) == IF attempts < 2 THEN "ready" ELSE "raised"

\* what becomes of a case task whose page request raised, after so many
\* attempts: nothing catches the exception, the task ends with it
fetch_failed(attempts) == "raised"

\* an executor that starts a thread for every work item
worker_always(busy) == busy >= 0

\* ThreadPoolExecutor(max_workers=10): with busy work items executing, a
\* worker thread exists or can be started for one more
worker_available(busy) == busy < max_workers

\* an event loop whose thread calls summarize_text itself
event_loop_blocked(busy) == busy = {}

\* loop.run_in_executor(executor, summarize_text, text): the worker threads
\* execute the work items in busy, the thread of the event loop runs the
\* steps of the tasks
event_loop_free(busy) == TRUE

\* a summary that takes the title of the scraped document
case_summary_doc_title(case, doc, summary) ==
    [title |-> doc.title, summary |-> summary]

\* what process_case returns: the title of the search result (case), not
\* the one of the scraped document (doc)
case_summary(case, doc, summary) ==
    [title |-> case.title, summary |-> summary]

\* asyncio.gather's result: the children's results in the order of the
\* children (rs), whatever the order they finished in
gather_results(rs, order) == [k \in 1..Len(rs) |-> rs[k][1]]

N == Len(cases)

Ids == 1..N

Pending == [kind |-> "pending", value |-> <<>>, exc |-> "NoExc"]

ReturnNone == [kind |-> "None", value |-> <<>>, exc |-> "NoExc"]

ReturnList(v) == [kind |-> "list", value |-> v, exc |-> "NoExc"]

Raise(e) == [kind |-> "raised", value |-> <<>>, exc |-> e]

GateOff == g_idle = 0 /\ g_waiting = 0 /\ g_holding = 0 /\ g_done = 0

PoolOff == p_idle = 0 /\ p_queued = 0 /\ p_running = 0 /\ p_done = 0

SummarizerOff ==
    /\ sm_text = <<>>
    /\ sm_gen = [ok |-> TRUE, out |-> <<>>]
    /\ sm_prompt = None
    /\ sm_result = None

PipelineInit ==
    /\ mainpc = "init"
    /\ search_url = None
    /\ cases = <<>>
    /\ pc = <<>>
    /\ case_data = <<>>
    /\ work = <<>>
    /\ fut = <<>>
    /\ results = <<>>
    /\ queue = <<>>
    /\ running = {}
    /\ done_order = <<>>
    /\ gather_exc = "NoExc"
    /\ fetch_exc = <<>>
    /\ ret = Pending
    /\ search_page = None
    /\ case_status = <<>>
    /\ engine = <<>>
    /\ case_body = <<>>
    /\ fetches = <<>>
    /\ submits = <<>>
    /\ n_get = 0
    /\ busy_at = <<>>

Init ==
    /\ PipelineInit
    /\ semaphore = MAX_CONCURRENT_REQUESTS
    /\ GateOff
    /\ SummarizerOff
    /\ PoolOff

\* run_async_task(query) up to the await of the search request:
\* search_indiankanoon builds the URL, fetch_url enters the semaphore
RunStart ==
    /\ mainpc = "init"
    /\ ~locked(semaphore)
    /\ \E query \in Queries : search_url' = Some(SEARCH_URL \o query)
    /\ semaphore' = sem_acquire(semaphore)
    /\ n_get' = n_get + 1
    /\ mainpc' = "search_wait"
    /\ UNCHANGED <<cases, pc, case_data, work, fut, results, queue, running,
                   done_order, gather_exc, fetch_exc, ret>>
    /\ UNCHANGED <<harness, search_page, case_status, engine, case_body, fetches, submits,
                   busy_at>>

\* the search request is answered: fetch_url leaves the semaphore,
\* search_indiankanoon parses, fetch_and_process_cases returns None or
\* creates the case tasks and awaits gather
SearchResponseOn(pages) ==
    /\ mainpc = "search_wait"
    /\ \E page \in pages :
          LET found == search_indiankanoon(page.status, page.anchors)
              n == Len(found.cases)
          IN  /\ semaphore' = sem_exit(semaphore, "response")
              /\ search_page' = Some(page)
              /\ case_status' = [k \in 1..n |-> None]
              /\ engine' = [k \in 1..n |-> None]
              /\ case_body' = [k \in 1..n |-> None]
              /\ fetches' = [k \in 1..n |-> 0]
              /\ submits' = [k \in 1..n |-> 0]
              /\ busy_at' = [k \in 1..n |-> {}]
              /\ IF found.raised
                 THEN /\ mainpc' = "raised"
                      /\ ret' = Raise("KeyError")
                      /\ UNCHANGED <<cases, pc, case_data, work, fut, results,
                                     fetch_exc>>
                 ELSE IF found.cases = <<>>
                 THEN /\ mainpc' = "returned"
                      /\ ret' = ReturnNone
                      /\ UNCHANGED <<cases, pc, case_data, work, fut, results,
                                     fetch_exc>>
                 ELSE /\ mainpc' = "gather"
                      /\ cases' = found.cases
                      /\ pc' = [k \in 1..n |-> "ready"]
                      /\ case_data' = [k \in 1..n |-> None]
                      /\ work' = [k \in 1..n |-> None]
                      /\ fut' = [k \in 1..n |-> None]
                      /\ results' = [k \in 1..n |-> None]
                      /\ fetch_exc' = [k \in 1..n |-> "NoExc"]
                      /\ ret' = ret
    /\ UNCHANGED <<search_url, queue, running, done_order, gather_exc>>
    /\ UNCHANGED <<harness, n_get>>

SearchResponse == SearchResponseOn(SearchPages)

\* the search request times out or fails: the exception leaves fetch_url
\* (releasing the semaphore), search_indiankanoon, the client's context and
\* asyncio.run
SearchError ==
    /\ mainpc = "search_wait"
    /\ \E e \in FetchErrors :
          /\ semaphore' = sem_exit(semaphore, "error")
          /\ mainpc' = "raised"
          /\ ret' = Raise(e)
    /\ UNCHANGED <<search_url, cases, pc, case_data, work, fut, results, queue,
                   running, done_order, gather_exc, fetch_exc>>
    /\ UNCHANGED <<harness, search_page, case_status, engine, case_body, fetches, submits, n_get,
                   busy_at>>

\* the first step of case task i, run by the event loop in creation order:
\* process_case -> scrape_case -> fetch_url enters the semaphore and awaits
\* client.get
CaseFetch(i) ==
    /\ mainpc = "gather"
    /\ event_loop_free(running)
    /\ pc[i] = "ready"
    /\ \A j \in 1..(i - 1) : pc[j] # "ready"
    /\ ~locked(semaphore)
    /\ semaphore' = sem_acquire(semaphore)
    /\ pc' = [pc EXCEPT ![i] = "fetching"]
    /\ fetches' = [fetches EXCEPT ![i] = @ + 1]
    /\ n_get' = n_get + 1
    /\ UNCHANGED <<mainpc, search_url, cases, case_data, work, fut, results,
                   queue, running, done_order, gather_exc, fetch_exc, ret>>
    /\ UNCHANGED <<harness, search_page, case_status, engine, case_body, submits,
                   busy_at>>

\* the page of case i is answered: fetch_url leaves the semaphore,
\* scrape_case builds the document, process_case returns the unavailable
\* summary or submits summarize_text to the executor and awaits it
CaseResponseOn(i, bodies) ==
    /\ mainpc = "gather"
    /\ event_loop_free(running)
    /\ pc[i] = "fetching"
    /\ \A j \in Ids : pc[j] # "ready"
    /\ \E status \in Statuses, body \in bodies :
          LET doc == scrape_case(cases[i].url, status, body)
          IN  /\ semaphore' = sem_exit(semaphore, "response")
              /\ case_status' = [case_status EXCEPT ![i] = Some(status)]
              /\ case_body' = [case_body EXCEPT ![i] = Some(body)]
              /\ busy_at' = [busy_at EXCEPT ![i] = running]
              /\ case_data' = [case_data EXCEPT ![i] = Some(doc.text)]
              /\ IF skip_summarization(doc.text)
                 THEN /\ results' = [results EXCEPT ![i] =
                            Some(case_summary(cases[i], doc, UNAVAILABLE))]
                      /\ pc' = [pc EXCEPT ![i] = "done"]
                      /\ done_order' = Append(done_order, i)
                      /\ UNCHANGED <<work, queue, submits>>
                 ELSE /\ work' = [work EXCEPT ![i] = Some(doc.text)]
                      /\ submits' = [submits EXCEPT ![i] = @ + 1]
                      /\ queue' = Append(queue, i)
                      /\ pc' = [pc EXCEPT ![i] = "summarizing"]
                      /\ UNCHANGED <<results, done_order>>
    /\ UNCHANGED <<mainpc, search_url, cases, fut, running, gather_exc,
                   fetch_exc, ret>>
    /\ UNCHANGED <<harness, search_page, engine, fetches, n_get>>

CaseResponse(i) == CaseResponseOn(i, PageBodies)

\* the page fetch of case i times out or fails: the exception leaves
\* fetch_url (releasing the semaphore), scrape_case and process_case; the
\* task ends with it and gather takes the first such exception as its own
CaseFetchErrorOn(i, errors) ==
    /\ mainpc = "gather"
    /\ event_loop_free(running)
    /\ pc[i] = "fetching"
    /\ \A j \in Ids : pc[j] # "ready"
    /\ \E e \in errors :
          /\ fetch_exc' = [fetch_exc EXCEPT ![i] = e]
          /\ gather_exc' = IF gather_exc = "NoExc" THEN e ELSE gather_exc
    /\ semaphore' = sem_exit(semaphore, "error")
    /\ pc' = [pc EXCEPT ![i] = fetch_failed(fetches[i])]
    /\ UNCHANGED <<mainpc, search_url, cases, case_data, work, fut, results,
                   queue, running, done_order, ret>>
    /\ UNCHANGED <<harness, search_page, case_status, engine, case_body, fetches, submits, n_get,
                   busy_at>>

CaseFetchError(i) == CaseFetchErrorOn(i, FetchErrors)

\* a worker thread of the executor takes the oldest submitted work item
WorkerStart ==
    /\ queue # <<>>
    /\ worker_available(Cardinality(running))
    /\ running' = running \cup {Head(queue)}
    /\ queue' = Tail(queue)
    /\ UNCHANGED <<mainpc, search_url, semaphore, cases, pc, case_data, work,
                   fut, results, done_order, gather_exc, fetch_exc, ret>>
    /\ UNCHANGED <<harness, search_page, case_status, engine, case_body, fetches, submits, n_get,
                   busy_at>>

\* the worker thread running summarize_text for case i finishes
WorkerFinish(i) ==
    /\ i \in running
    /\ \E gen \in EngineOutcomes :
          /\ engine' = [engine EXCEPT ![i] = Some(gen)]
          /\ fut' = [fut EXCEPT ![i] = Some(summarize_text(work[i][1], gen))]
    /\ running' = running \ {i}
    /\ UNCHANGED <<mainpc, search_url, semaphore, cases, pc, case_data, work,
                   results, queue, done_order, gather_exc, fetch_exc, ret>>
    /\ UNCHANGED <<harness, search_page, case_status, case_body, fetches, submits, n_get,
                   busy_at>>

\* case task i resumes from run_in_executor: process_case returns the
\* summary (an exception of summarize_text would leave the task)
CaseResume(i) ==
    /\ mainpc = "gather"
    /\ event_loop_free(running)
    /\ pc[i] = "summarizing"
    /\ fut[i] # None
    /\ IF fut[i][1].raised
       THEN /\ pc' = [pc EXCEPT ![i] = "raised"]
            /\ gather_exc' = IF gather_exc = "NoExc" THEN "Exception"
                             ELSE gather_exc
            /\ UNCHANGED <<results, done_order>>
       ELSE /\ results' = [results EXCEPT ![i] =
                  Some(case_summary(cases[i],
                                    scrape_case(cases[i].url, case_status[i][1],
                                                case_body[i][1]),
                                    fut[i][1].value))]
            /\ pc' = [pc EXCEPT ![i] = "done"]
            /\ done_order' = Append(done_order, i)
            /\ UNCHANGED gather_exc
    /\ UNCHANGED <<mainpc, search_url, semaphore, cases, case_data, work, fut,
                   queue, running, fetch_exc, ret>>
    /\ UNCHANGED <<harness, search_page, case_status, engine, case_body, fetches, submits, n_get,
                   busy_at>>

\* every case task returned: gather gives the list, the client closes,
\* asyncio.run returns it
GatherReturn ==
    /\ mainpc = "gather"
    /\ event_loop_free(running)
    /\ gather_exc = "NoExc"
    /\ \A j \in Ids : pc[j] = "done"
    /\ ret' = ReturnList(gather_results(results, done_order))
    /\ mainpc' = "returned"
    /\ UNCHANGED <<search_url, semaphore, cases, pc, case_data, work, fut,
                   results, queue, running, done_order, gather_exc, fetch_exc>>
    /\ UNCHANGED <<harness, search_page, case_status, engine, case_body, fetches, submits, n_get,
                   busy_at>>

\* a case task raised: gather (return_exceptions=False) raises its exception
\* into fetch_and_process_cases, the client closes, and asyncio.run cancels
\* the case tasks still pending before it re-raises: a fetch in progress
\* leaves the semaphore, a work item not yet started is cancelled, one a
\* worker is executing runs on
GatherRaise ==
    /\ mainpc = "gather"
    /\ event_loop_free(running)
    /\ gather_exc # "NoExc"
    /\ LET alive == {j \in Ids : pc[j] \in {"fetching", "summarizing"}}
           fetching == {j \in Ids : pc[j] = "fetching"}
       IN  /\ pc' = [j \in Ids |-> IF j \in alive THEN "cancelled" ELSE pc[j]]
           /\ semaphore' = sem_exit_all(semaphore, Cardinality(fetching), "cancelled")
    /\ queue' = <<>>
    /\ ret' = Raise(gather_exc)
    /\ mainpc' = "raised"
    /\ UNCHANGED <<search_url, cases, case_data, work, fut, results, running,
                   done_order, gather_exc, fetch_exc>>
    /\ UNCHANGED <<harness, search_page, case_status, engine, case_body, fetches, submits, n_get,
                   busy_at>>

Next ==
    \/ RunStart
    \/ SearchResponse
    \/ SearchError
    \/ \E i \in Ids : CaseFetch(i)
    \/ \E i \in Ids : CaseResponse(i)
    \/ \E i \in Ids : CaseFetchError(i)
    \/ WorkerStart
    \/ \E i \in Ids : WorkerFinish(i)
    \/ \E i \in Ids : CaseResume(i)
    \/ GatherReturn
    \/ GatherRaise

Spec == Init /\ [][Next]_vars

\* the event loop runs every callback that is ready, every request is
\* answered or fails within the client's timeout, and a worker thread that
\* took a work item finishes it
FairSpec == Spec /\ WF_vars(Next)

TypeOK ==
    /\ mainpc \in {"init", "search_wait", "gather", "returned", "raised"}
    /\ semaphore \in 0..MAX_CONCURRENT_REQUESTS
    /\ Len(pc) = N

(***************************************************************************)
(* Stress harness of fetch_url: NumCallers calls scheduled at once on one  *)
(* event loop, counted by where they stand.                                *)
(***************************************************************************)
GateInit ==
    /\ PipelineInit
    /\ semaphore = MAX_CONCURRENT_REQUESTS
    /\ g_idle = NumCallers
    /\ g_waiting = 0
    /\ g_holding = 0
    /\ g_done = 0
    /\ SummarizerOff
    /\ PoolOff

\* a call reaches "async with semaphore" with a slot free: it enters and
\* issues client.get
FetchEnter ==
    /\ g_idle > 0
    /\ ~locked(semaphore)
    /\ semaphore' = sem_acquire(semaphore)
    /\ g_idle' = g_idle - 1
    /\ g_holding' = g_holding + 1
    /\ UNCHANGED <<pipeline, g_waiting, g_done, summarizer, pool>>

\* a call reaches "async with semaphore" with no slot free: it suspends in
\* acquire()
FetchSuspend ==
    /\ g_idle > 0
    /\ locked(semaphore)
    /\ g_idle' = g_idle - 1
    /\ g_waiting' = g_waiting + 1
    /\ UNCHANGED <<pipeline, semaphore, g_holding, g_done, summarizer, pool>>

\* a suspended call is woken with a slot free: it enters and issues
\* client.get
FetchWake ==
    /\ g_waiting > 0
    /\ ~locked(semaphore)
    /\ semaphore' = sem_acquire(semaphore)
    /\ g_waiting' = g_waiting - 1
    /\ g_holding' = g_holding + 1
    /\ UNCHANGED <<pipeline, g_idle, g_done, summarizer, pool>>

\* client.get of a call returns or raises: the call leaves the semaphore
FetchLeave ==
    /\ g_holding > 0
    /\ \E how \in {"response", "error"} : semaphore' = sem_exit(semaphore, how)
    /\ g_holding' = g_holding - 1
    /\ g_done' = g_done + 1
    /\ UNCHANGED <<pipeline, g_idle, g_waiting, summarizer, pool>>

GateNext ==
    \/ FetchEnter
    \/ FetchSuspend
    \/ FetchWake
    \/ FetchLeave

GateSpec == GateInit /\ [][GateNext]_vars

(***************************************************************************)
(* summarize_text alone, on every text and engine outcome of a bounded     *)
(* set.                                                                    *)
(***************************************************************************)
Pieces == {THINK_END, <<"a">>, <<" ">>}

RECURSIVE Flatten(_)
Flatten(ps) == IF ps = <<>> THEN <<>> ELSE Head(ps) \o Flatten(Tail(ps))

DecodedOutputs == {Flatten(ps) : ps \in BoundedSeq(Pieces, MaxPieces)}

SummarizeTexts == {<<>>, <<"o","k">>, NO_TEXT}

SummarizeInit ==
    /\ PipelineInit
    /\ semaphore = MAX_CONCURRENT_REQUESTS
    /\ GateOff
    /\ sm_text \in SummarizeTexts
    /\ sm_gen \in [ok : BOOLEAN, out : DecodedOutputs]
    /\ sm_prompt = None
    /\ sm_result = None
    /\ PoolOff

\* one call of summarize_text(sm_text)
Summarize ==
    /\ sm_result = None
    /\ sm_prompt' = Some(build_prompt(sm_text))
    /\ sm_result' = Some(summarize_text(sm_text, sm_gen))
    /\ UNCHANGED <<pipeline, semaphore, gate, sm_text, sm_gen, pool>>

SummarizeNext == Summarize

SummarizeSpec == SummarizeInit /\ [][SummarizeNext]_vars

(***************************************************************************)
(* One case with a long page: the run from the state in which the page     *)
(* request of its only case is in progress, answered with a text around    *)
(* MAX_CASE_TEXT_LENGTH characters.                                        *)
(***************************************************************************)
Chars(c, n) == [k \in 1..n |-> c]

LongLengths ==
    (MAX_CASE_TEXT_LENGTH - MaxOver)..(MAX_CASE_TEXT_LENGTH + MaxOver)

\* one long paragraph; a short paragraph and a long one; a long paragraph
\* and a short one (joined with a space: two characters more)
LongBodies ==
    {<< <<Chars("a", n)>> >> : n \in LongLengths}
    \cup {<< <<Chars("b", 1)>>, <<Chars("a", n - 2)>> >> : n \in LongLengths}
    \cup {<< <<Chars("a", n - 2)>>, <<Chars("b", 1)>> >> : n \in LongLengths}

ExtractQuery == <<"t","a","x">>

ExtractAnchors ==
    <<[text |-> <<" ","A"," ">>, href |-> Some(<<"/","d","/","1">>)]>>

ExtractInit ==
    /\ mainpc = "gather"
    /\ search_url = Some(SEARCH_URL \o ExtractQuery)
    /\ search_page = Some([status |-> HTTP_OK, anchors |-> ExtractAnchors])
    /\ cases = search_parse(ExtractAnchors).cases
    /\ pc = <<"fetching">>
    /\ case_data = <<None>>
    /\ work = <<None>>
    /\ fut = <<None>>
    /\ results = <<None>>
    /\ queue = <<>>
    /\ running = {}
    /\ done_order = <<>>
    /\ gather_exc = "NoExc"
    /\ fetch_exc = <<"NoExc">>
    /\ ret = Pending
    /\ case_status = <<None>>
    /\ engine = <<None>>
    /\ case_body = <<None>>
    /\ fetches = <<1>>
    /\ submits = <<0>>
    /\ n_get = 2
    /\ busy_at = << {} >>
    /\ semaphore = MAX_CONCURRENT_REQUESTS - 1
    /\ GateOff
    /\ SummarizerOff
    /\ PoolOff

ExtractNext ==
    \/ \E i \in Ids : CaseResponseOn(i, LongBodies)
    \/ WorkerStart
    \/ \E i \in Ids : WorkerFinish(i)
    \/ \E i \in Ids : CaseResume(i)
    \/ GatherReturn

ExtractSpec == ExtractInit /\ [][ExtractNext]_vars

(***************************************************************************)
(* Stress harness of the executor: NumJobs summarize_text calls submitted  *)
(* with run_in_executor, counted by where they stand.                      *)
(***************************************************************************)
PoolInit ==
    /\ PipelineInit
    /\ semaphore = MAX_CONCURRENT_REQUESTS
    /\ GateOff
    /\ SummarizerOff
    /\ p_idle = NumJobs
    /\ p_queued = 0
    /\ p_running = 0
    /\ p_done = 0

\* run_in_executor(executor, summarize_text, text): the work item is put on
\* the executor's queue
PoolSubmit ==
    /\ p_idle > 0
    /\ p_idle' = p_idle - 1
    /\ p_queued' = p_queued + 1
    /\ UNCHANGED <<pipeline, semaphore, gate, summarizer, p_running, p_done>>

\* a worker thread takes a work item off the queue and calls summarize_text
PoolStart ==
    /\ p_queued > 0
    /\ worker_available(p_running)
    /\ p_queued' = p_queued - 1
    /\ p_running' = p_running + 1
    /\ UNCHANGED <<pipeline, semaphore, gate, summarizer, p_idle, p_done>>

\* summarize_text returns in a worker thread
PoolFinish ==
    /\ p_running > 0
    /\ p_running' = p_running - 1
    /\ p_done' = p_done + 1
    /\ UNCHANGED <<pipeline, semaphore, gate, summarizer, p_idle, p_queued>>

PoolNext ==
    \/ PoolSubmit
    \/ PoolStart
    \/ PoolFinish

PoolSpec == PoolInit /\ [][PoolNext]_vars

(***************************************************************************)
(* Runs whose search page carries about MaxSearchResults result anchors,   *)
(* up to the point where every page request is in progress, failed or      *)
(* cancelled.                                                              *)
(***************************************************************************)
WideAnchor == [text |-> <<"B">>, href |-> Some(<<"/","d","/","2">>)]

WidePages ==
    { [status |-> HTTP_OK, anchors |-> [k \in 1..n |-> WideAnchor]] :
        n \in (MaxSearchResults - 1)..MaxWideAnchors }

WideErrors == {"ReadTimeout"}

WideNext ==
    \/ RunStart
    \/ SearchResponseOn(WidePages)
    \/ \E i \in Ids : CaseFetch(i)
    \/ \E i \in Ids : CaseFetchErrorOn(i, WideErrors)
    \/ GatherRaise

WideSpec == Init /\ [][WideNext]_vars

(***************************************************************************)
(* Properties.                                                             *)
(***************************************************************************)
Ended == mainpc \in {"returned", "raised"}

\* the fetches of the run that are inside the semaphore
InFlight ==
    (IF mainpc = "search_wait" THEN 1 ELSE 0)
    + Cardinality({i \in Ids : pc[i] = "fetching"})

\* the summary process_case owes case i, from what the case's own fetch and
\* summarization gave
OwnSummary(i) == IF work[i] = None THEN UNAVAILABLE ELSE fut[i][1].value

\* C1: in a run with N >= 2 search results in which the page fetch of a case
\* timed out, the run ends without an exception, returns N summaries, and
\* the summary of each timed-out case is the unavailable sentinel.
C1_TimeoutIsolated ==
    (Ended /\ N >= 2 /\ \E i \in Ids : fetch_exc[i] = "ReadTimeout")
    => /\ ret.kind = "list"
       /\ Len(ret.value) = N
       /\ \A i \in Ids : fetch_exc[i] = "ReadTimeout"
                            => ret.value[i].summary = UNAVAILABLE

\* C2: a run whose search yielded N results ends by returning None when
\* N = 0 and a list of exactly N summaries otherwise, whatever happened to
\* each case.
C2_RunReturnsNSummaries ==
    (Ended /\ ~(mainpc = "raised" /\ cases = <<>>))
    => IF N = 0 THEN ret = ReturnNone
       ELSE ret.kind = "list" /\ Len(ret.value) = N

\* C3: the i-th element of the returned list is the summary of the i-th
\* search result (its title, and the summary its own extraction and
\* summarization gave), in whatever order the case tasks finished.
C3_OutputOrder ==
    ret.kind = "list"
    => /\ Len(ret.value) = N
       /\ \A i \in Ids :
             /\ ret.value[i].title = cases[i].title
             /\ ret.value[i].summary = OwnSummary(i)

C3_Witness ==
    /\ ret.kind = "list"
    /\ done_order = <<2, 1>>
    /\ ret.value[1] # ret.value[2]
    /\ cases[1].title # cases[2].title

\* C4: the number of fetches inside the gate never exceeds the maximum
\* (100), and in a step taken with the gate saturated no further fetch
\* enters it (issues its request).
C4_GateBound ==
    /\ [](g_holding <= MAX_CONCURRENT_REQUESTS)
    /\ [][g_holding = MAX_CONCURRENT_REQUESTS => g_holding' <= g_holding]_vars

C4_Witness ==
    /\ g_holding = MAX_CONCURRENT_REQUESTS
    /\ g_waiting > 0

\* C5: the slots taken from the gate are exactly those of the fetches in
\* progress, so with no fetch in progress (in particular once the run has
\* ended, returned or raised) every slot is back.
C5_NoSlotLeaked ==
    /\ semaphore = MAX_CONCURRENT_REQUESTS - InFlight
    /\ Ended => semaphore = MAX_CONCURRENT_REQUESTS

C5_Witness ==
    /\ mainpc = "raised"
    /\ \E i \in Ids : fetch_exc[i] = "ReadTimeout"
    /\ \E i \in Ids : pc[i] = "cancelled" /\ case_status[i] = None
    /\ semaphore = MAX_CONCURRENT_REQUESTS

\* C6: a case whose extraction gave the fetch-failure sentinel (its page
\* was answered with a non-200 status) has the unavailable sentinel as its
\* summary, and nothing was ever submitted to the executor for it.
C6_FetchFailureSkipped ==
    \A i \in Ids :
        (case_status[i] # None /\ case_status[i] # Some(HTTP_OK))
        => /\ case_data[i] = Some(FETCH_FAILED_TEXT)
           /\ results[i] = Some([title |-> cases[i].title, summary |-> UNAVAILABLE])
           /\ work[i] = None
           /\ engine[i] = None
           /\ fut[i] = None
           /\ i \notin running
           /\ \A k \in 1..Len(queue) : queue[k] # i
           /\ ret.kind = "list" => ret.value[i].summary = UNAVAILABLE

C6_Witness ==
    /\ ret.kind = "list"
    /\ \E i \in Ids : case_status[i] = Some(404)
    /\ \E i \in Ids : engine[i] # None

\* C7: a case whose page was fetched with status 200 and whose extracted
\* text is non-empty has that text handed to the summarizer, and its summary
\* is what the summarizer returned.
C7_NonEmptyTextSummarized ==
    \A i \in Ids :
        (case_status[i] = Some(HTTP_OK) /\ case_data[i] # Some(<<>>))
        => /\ work[i] = case_data[i]
           /\ results[i] # None => results[i][1].summary = fut[i][1].value

\* C8: summarize_text never raises; when the engine fails, what it returns
\* starts with "Error in summarization:", that string is the summary of the
\* case, and neither the run nor the other cases are touched: no case task
\* ends with an exception of its summarization, the run raises only what a
\* fetch or the search raised, and every returned summary is the case's own.
C8_GenerationFailureContained ==
    /\ \A i \in Ids :
          fut[i] # None
          => /\ ~fut[i][1].raised
             /\ ~engine[i][1].ok
                => /\ Prefix(fut[i][1].value, Len(ERROR_PREFIX) - 1)
                        = Prefix(ERROR_PREFIX, Len(ERROR_PREFIX) - 1)
                   /\ results[i] # None
                        => results[i][1].summary = ERROR_PREFIX \o engine[i][1].out
    /\ \A i \in Ids : pc[i] = "raised" => fetch_exc[i] # "NoExc"
    /\ (mainpc = "raised" /\ cases # <<>>)
          => \E i \in Ids : fetch_exc[i] = ret.exc
    /\ ret.kind = "list"
          => \A i \in Ids : ret.value[i].summary = OwnSummary(i)

C8_Witness ==
    /\ ret.kind = "list"
    /\ N = 2
    /\ engine[1] # None
    /\ engine[2] # None
    /\ ~engine[1][1].ok
    /\ engine[2][1].ok
    /\ ret.value[1].summary = ERROR_PREFIX \o <<"o","o","m">>
    /\ ret.value[2].summary = <<"s">>

\* C9 as claimed: with the delimiter in the decoded output the summary is
\* the trimmed text after its LAST occurrence and contains no delimiter;
\* without it the summary is the whole decoded output.
C9_AfterLastDelimiter ==
    (sm_result # None /\ sm_gen.ok)
    => LET d == sm_gen.out
           occ == Occurrences(THINK_END, d)
           v == sm_result[1].value
       IN  IF occ # {}
           THEN /\ \E k \in occ :
                     /\ \A j \in occ : j <= k
                     /\ v = Strip(SubSeq(d, k + Len(THINK_END), Len(d)))
                /\ ~Contains(THINK_END, v)
           ELSE v = d

\* C9 amended: with the delimiter in the decoded output the summary is the
\* trimmed text after its FIRST occurrence (later delimiters stay in it);
\* without it the summary is the trimmed decoded output.
C9_AfterFirstDelimiter ==
    (sm_result # None /\ sm_gen.ok)
    => LET d == sm_gen.out
           occ == Occurrences(THINK_END, d)
           v == sm_result[1].value
       IN  IF occ # {}
           THEN \E k \in occ :
                     /\ \A j \in occ : k <= j
                     /\ v = Strip(SubSeq(d, k + Len(THINK_END), Len(d)))
           ELSE v = Strip(d)

C9_Witness ==
    /\ sm_result # None
    /\ sm_gen.ok
    /\ Cardinality(Occurrences(THINK_END, sm_gen.out)) >= 2
    /\ Contains(THINK_END, sm_result[1].value)

\* the search results the claim of C10 expects of a page: the anchors with
\* an href among the first 10, in source order
RECURSIVE WithHref(_)
WithHref(links) ==
    IF links = <<>> THEN <<>>
    ELSE IF Head(links).href = None THEN WithHref(Tail(links))
    ELSE <<[title |-> Strip(Head(links).text),
            url |-> BASE_URL \o Head(links).href[1]]>> \o WithHref(Tail(links))

\* C10: a search page answered with status 200 never makes the search fail:
\* anchors without an href are skipped and the others are the search
\* results, in source order.
C10_MissingHrefSkipped ==
    (search_page # None /\ search_page[1].status = HTTP_OK)
    => /\ ret.exc # "KeyError"
       /\ cases = WithHref(Prefix(search_page[1].anchors, MaxSearchResults))

\* C11: when the search request is answered with a non-200 status, the
\* search gives no results and raises nothing, the run returns None, and the
\* search request stays the only request of the run: no case task, no page
\* request and no summarization exist.
C11_SearchUnavailable ==
    (search_page # None /\ search_page[1].status # HTTP_OK)
    => /\ mainpc = "returned"
       /\ ret = ReturnNone
       /\ cases = <<>>
       /\ pc = <<>>
       /\ n_get = 1
       /\ fetches = <<>>
       /\ submits = <<>>
       /\ queue = <<>>
       /\ running = {}
       /\ semaphore = MAX_CONCURRENT_REQUESTS

C11_Witness ==
    /\ search_page # None
    /\ search_page[1].status # HTTP_OK
    /\ Len(search_page[1].anchors) = 2
    /\ \A k \in 1..2 : search_page[1].anchors[k].href # None
    /\ mainpc = "returned"

\* the concatenation of the paragraphs of the page of case i
FullText(i) ==
    LET body == case_body[i][1]
    IN  Join(<<" ">>, [k \in 1..Len(body) |-> get_text(body[k])])

\* C12: the text handed to the summarizer for a fetched case is the first
\* MAX_CASE_TEXT_LENGTH (9500) characters of the concatenated paragraphs,
\* exactly that many when the concatenation is longer, and the whole
\* concatenation otherwise.
C12_TextTruncated ==
    \A i \in Ids :
        (case_status[i] = Some(HTTP_OK) /\ case_body[i] # Some(<<>>)
            /\ work[i] # None)
        => LET full == FullText(i)
               handed == work[i][1]
           IN  IF Len(full) > MAX_CASE_TEXT_LENGTH
               THEN /\ Len(handed) = MAX_CASE_TEXT_LENGTH
                    /\ \A k \in 1..MAX_CASE_TEXT_LENGTH : handed[k] = full[k]
               ELSE handed = full

C12_Witness ==
    \E i \in Ids :
        /\ case_status[i] = Some(HTTP_OK)
        /\ case_body[i] # None
        /\ Len(case_body[i][1]) = 2
        /\ Len(FullText(i)) > MAX_CASE_TEXT_LENGTH
        /\ work[i] # None
        /\ Len(work[i][1]) = MAX_CASE_TEXT_LENGTH
        /\ fut[i] # None

\* C13: a case whose page was fetched with status 200 and holds no matching
\* paragraph has the text "No case text found."; the case is not skipped:
\* that very string is submitted to the summarizer, and what summarize_text
\* returns for it is the summary of the case.
C13_NoTextSummarized ==
    \A i \in Ids :
        (case_status[i] = Some(HTTP_OK) /\ case_body[i] = Some(<<>>))
        => /\ case_data[i] = Some(NO_TEXT)
           /\ work[i] = Some(NO_TEXT)
           /\ submits[i] = 1
           /\ pc[i] \in {"summarizing", "done", "cancelled"}
           /\ results[i] # None
                => /\ fut[i] # None
                   /\ results[i][1].summary = fut[i][1].value
                   /\ results[i][1].summary # UNAVAILABLE

C13_Witness ==
    \E i \in Ids :
        /\ case_status[i] = Some(HTTP_OK)
        /\ case_body[i] = Some(<<>>)
        /\ ret.kind = "list"
        /\ engine[i][1].ok
        /\ ret.value[i].summary = post_process(engine[i][1].out)

\* the classification of a case whose page request was answered
Classification(i) == IF submits[i] = 0 THEN "skipped" ELSE "summarized"

\* C14: the classification of a case, skipped or summarized, is decided by
\* the upstream answer alone: any two case tasks given the same answer
\* (status and page content) get the same classification, whatever their
\* position, the interleaving of the tasks and the outcomes of the engine.
\* (Two runs on the same answers are two such tasks: a case task shares
\* nothing with the rest of its run but the gate and the executor.)
C14_ClassificationStable ==
    \A i, j \in Ids :
        (case_status[i] # None /\ case_status[i] = case_status[j]
            /\ case_body[i] = case_body[j])
        => /\ Classification(i) = Classification(j)
           /\ (Classification(i) = "skipped") = (work[i] = None)
           /\ (results[i] # None /\ results[j] # None)
                => (results[i][1].summary = UNAVAILABLE)
                     = (results[j][1].summary = UNAVAILABLE)

C14_Witness ==
    /\ ret.kind = "list"
    /\ N = 2
    /\ case_status[1] = case_status[2]
    /\ case_body[1] = case_body[2]
    /\ Classification(1) = "summarized"
    /\ Classification(2) = "summarized"
    /\ engine[1] # engine[2]
    /\ done_order = <<2, 1>>

\* how far a case task has come: Pending (its page request not yet made, or
\* in progress), Extracted (its text submitted for summarization), ended
Rank(p) ==
    CASE p = "ready" -> 0
      [] p = "fetching" -> 1
      [] p = "summarizing" -> 2
      [] OTHER -> 3

\* C15: a case task only moves forward, Pending -> Extracted -> Summarized
\* or skipped -> Done; its summarization is submitted only after its own
\* extraction; and in one run at most one page request and at most one
\* summarization are issued for it, also after a failure.
C15_CaseLifecycle ==
    /\ [](\A i \in Ids :
            /\ fetches[i] <= 1
            /\ submits[i] <= 1
            /\ pc[i] = "ready" => fetches[i] = 0
            /\ case_data[i] # None => fetches[i] = 1 /\ Rank(pc[i]) >= 2
            /\ submits[i] = 1 => case_data[i] # None /\ work[i] = case_data[i]
            /\ (i \in running \/ \E k \in 1..Len(queue) : queue[k] = i)
                  => submits[i] = 1
            /\ pc[i] = "done" => results[i] # None)
    /\ [][\A i \in Ids : Rank(pc'[i]) >= Rank(pc[i])]_vars

C15_Witness ==
    /\ N = 2
    /\ pc[1] = "done"
    /\ submits[1] = 1
    /\ fetches[1] = 1
    /\ pc[2] = "raised"
    /\ fetches[2] = 1
    /\ mainpc = "raised"

\* C16: at most max_workers (10) summarize_text calls execute at once; a
\* call submitted while 10 execute is put on the queue, and none starts
\* executing until one of the 10 has finished.
C16_PoolBound ==
    /\ [](p_running <= max_workers)
    /\ [](p_idle + p_queued + p_running + p_done = NumJobs)
    /\ [][(p_running = max_workers /\ p_idle' < p_idle)
             => p_queued' = p_queued + 1]_vars
    /\ [][p_running = max_workers => p_running' <= p_running]_vars

C16_Witness ==
    /\ p_running = max_workers
    /\ p_queued = NumJobs - max_workers

C18_RunCompletes ==
    (mainpc = "gather") ~> (mainpc = "returned" /\ \A i \in Ids : pc[i] = "done")

\* C19: every summary process_case returned, and every element of the
\* returned list, carries the title of the search result at its position
\* (the stripped text of the anchor at that position of the search page),
\* whether the case was skipped, summarized or its generation failed; the
\* title "Unknown" of the scraped document is in the output only where the
\* search result's own title is "Unknown".
C19_TitleFromSearch ==
    /\ \A i \in Ids :
          results[i] # None
          => /\ results[i][1].title = cases[i].title
             /\ results[i][1].title = Strip(search_page[1].anchors[i].text)
             /\ results[i][1].title = UNKNOWN_TITLE
                   => cases[i].title = UNKNOWN_TITLE
    /\ ret.kind = "list"
          => /\ Len(ret.value) = N
             /\ \A i \in Ids :
                   /\ ret.value[i].title = cases[i].title
                   /\ ret.value[i].title = UNKNOWN_TITLE
                         => cases[i].title = UNKNOWN_TITLE

\* a returned list with a skipped case and a case whose generation failed,
\* under the titles of two different search results
C19_Witness ==
    /\ ret.kind = "list"
    /\ N = 2
    /\ work[1] = None
    /\ engine[2] # None
    /\ ~engine[2][1].ok
    /\ ret.value[1] = [title |-> <<"B">>, summary |-> UNAVAILABLE]
    /\ ret.value[2].title = <<"A">>
    /\ ret.value[2].summary = ERROR_PREFIX \o <<"o","o","m">>

\* C20: in one run no page request is made before the search request was
\* answered, the search gives at most 10 results, so never more than 10
\* requests are in progress (semaphore slots held), the semaphore of 100 is
\* never locked, and the case task whose turn it is enters it at once.
C20_GateNeverSaturated ==
    /\ mainpc \in {"init", "search_wait"}
          => /\ N = 0
             /\ n_get <= 1
             /\ MAX_CONCURRENT_REQUESTS - semaphore <= 1
    /\ \A i \in Ids : fetches[i] > 0 => search_page # None
    /\ N <= MaxSearchResults
    /\ InFlight <= MaxSearchResults
    /\ MAX_CONCURRENT_REQUESTS - semaphore = InFlight
    /\ ~locked(semaphore)
    /\ \A i \in Ids :
          (mainpc = "gather" /\ pc[i] = "ready"
             /\ \A j \in 1..(i - 1) : pc[j] # "ready")
          => ENABLED CaseFetch(i)

\* a search page with more than 10 result anchors, and the page requests of
\* all 10 results in progress
C20_Witness ==
    /\ search_page # None
    /\ Len(search_page[1].anchors) > MaxSearchResults
    /\ N = MaxSearchResults
    /\ \A i \in Ids : pc[i] = "fetching"
    /\ semaphore = MAX_CONCURRENT_REQUESTS - MaxSearchResults

====
